---- MODULE Spec2Model ----
(***************************************************************************)
(* A model of mclient (src/src/mclient/mclient.c): the client that mirrors *)
(* the X root window into an MBuffer and keeps the X screen geometry in    *)
(* step with the geometry of the attached display.                         *)
(*                                                                         *)
(* The program is one thread.  Its position is pc; the X server, the other *)
(* X clients and the destination display are the environment (the Env*     *)
(* actions).  The row copy is additionally modelled byte by byte under its *)
(* own specification, CopySpec.                                            *)
(***************************************************************************)
EXTENDS Integers, Sequences, FiniteSets, TLC

\* ------------------------------------------------------------------ bounds
\* Longest X event queue the model lets build up.
MaxQ == 4
\* Largest width/height (pixels) of the byte-level copy.
MaxCopyDim == 2
\* Largest per-row padding (bytes for the XImage, pixels for the MBuffer).
MaxPad == 1

\* -------------------------------------------------------- program constants
\* x_sync_mode: for (i = 0; i < 3; ++i)
RETRIES == 3
\* copy_ximg_rows_to_buffer_mlocked: buf->stride * 4
BUF_BYTES_PER_PIXEL == 4

\* ---------------------------------------------------------------- geometry
\* Screen geometries <<width, height>> the X server can be set to.
Geoms == {<<2, 1>>, <<2, 2>>}
NoGeom == <<0, 0>>

\* Mode lists (XRRScreenResources.modes) the server may advertise.
ModeLists == {<< <<1, 1>>, <<2, 1>>, <<2, 2>> >>, << <<1, 1>>, <<2, 1>> >>}

\* ------------------------------------------------------------------ events
DamageEv == [type |-> "damage", w |-> 0, h |-> 0]
OtherEv == [type |-> "other", w |-> 0, h |-> 0]
ScreenEv(g) == [type |-> "screen", w |-> g[1], h |-> g[2]]

\* x_screenchangenotify_predicate
x_screenchangenotify_predicate(ev) == ev.type = "screen"

RECURSIVE FirstMatch(_, _)
\* Index of the first queued event the predicate accepts, 0 when there is none
\* (the scan XIfEvent and XCheckIfEvent make over the queue).
FirstMatch(q, i) ==
    IF i > Len(q) THEN 0
    ELSE IF x_screenchangenotify_predicate(q[i]) THEN i
    ELSE FirstMatch(q, i + 1)

RemoveAt(q, i) == SubSeq(q, 1, i - 1) \o SubSeq(q, i + 1, Len(q))

Count(q, t) == Cardinality({i \in 1..Len(q) : q[i].type = t})

VARIABLES
    pc,         \* position of the program
    exit,       \* "running", "zero", "nonzero" (main's return value), "signal"
    err,        \* main's err
    fatal,      \* an MLOGE/MLOGC fatal path was taken out of main
    xconn,      \* X connection: "closed", "open", "released"
    mconn,      \* MDisplay session: "closed", "open", "released"
    selected,   \* XRRSelectInput(RRScreenChangeNotifyMask) done
    cursor,     \* mcursor_init done
    damage,     \* Damage handle: "none", "created", "destroyed"
    dmgReported,\* the server has reported the outstanding damage (ReportNonEmpty)
    srv,        \* the X server's screen geometry
    modes,      \* the X server's mode list
    owed,       \* a ScreenChangeNotify for our own mode change is yet to be delivered
    xdpy,       \* Xlib's cached screen geometry (XDisplayWidth/XDisplayHeight)
    evq,        \* Xlib's event queue
    ev,         \* main's XEvent
    mdisp,      \* geometry of the attached display (MGetDisplayInfo)
    grabbed,    \* XGrabServer in effect
    caller,     \* which call of sync_displays: "init" or "loop"
    sd,         \* sync_displays' locals and per-call bookkeeping
    root,       \* MBuffer root: [w, h, st]
    ximg,       \* the XImage main's pointer designates: [w, h, st]
    orphan,     \* the XImage created inside resize_shm: [w, h, st]
    shm,        \* the segment described by shminfo: [st, mapped, attached]
    leaks,      \* what no pointer reaches any more: subset of {"ximage", "segment"}
    rr,         \* render_root bookkeeping
    cp          \* byte-level copy (CopySpec)

vars == <<pc, exit, err, fatal, xconn, mconn, selected, cursor, damage, dmgReported,
          srv, modes, owed, xdpy, evq, ev, mdisp, grabbed, caller, sd,
          root, ximg, orphan, shm, leaks, rr, cp>>

envVars == <<srv, modes, owed, mdisp, dmgReported>>
connVars == <<xconn, mconn, selected, cursor, damage>>
shmVars == <<ximg, orphan, shm, leaks>>
mainVars == <<exit, err, fatal>>

NoEv == [type |-> "none", w |-> 0, h |-> 0]
NoImg == [w |-> 0, h |-> 0, st |-> "null", d |-> 0]
NoShm == [st |-> "uninit", mapped |-> FALSE, attached |-> FALSE]
NoRoot == [w |-> 0, h |-> 0, st |-> "none"]
SdInit == [target |-> NoGeom, xg |-> NoGeom, xsn |-> FALSE, matching |-> 0,
           err |-> 0, i |-> 0, setret |-> 0, sets |-> 0, grabs |-> 0, ungrabs |-> 0,
           srv0 |-> NoGeom, log |-> "none", ret |-> 0]
RrInit == [locks |-> 0, unlocks |-> 0, wrote |-> FALSE, status |-> TRUE,
           dims |-> NoGeom, locked |-> FALSE, ret |-> 0]
CpIdle == [pc |-> "idle", w |-> 0, h |-> 0, bpp |-> 0, bpl |-> 0, stride |-> 0,
           rs |-> 0, re |-> 0, y |-> 0, oob |-> FALSE, buf |-> <<>>]

Init ==
    /\ pc = "XInitThreads"
    /\ exit = "running"
    /\ err = 0
    /\ fatal = FALSE
    /\ xconn = "closed"
    /\ mconn = "closed"
    /\ selected = FALSE
    /\ cursor = FALSE
    /\ damage = "none"
    /\ dmgReported = FALSE
    /\ srv \in Geoms
    /\ modes \in ModeLists
    /\ owed = FALSE
    /\ xdpy = NoGeom
    /\ evq = <<>>
    /\ ev = NoEv
    /\ mdisp \in Geoms
    /\ grabbed = FALSE
    /\ caller = "init"
    /\ sd = SdInit
    /\ root = NoRoot
    /\ ximg = NoImg
    /\ orphan = NoImg
    /\ shm = NoShm
    /\ leaks = {}
    /\ rr = RrInit
    /\ cp = CpIdle

xVars == <<xdpy, evq, ev>>
syncVars == <<grabbed, caller, sd>>
bufVars == <<root, rr>>

\* ------------------------------------------------------------ main: startup
\* return from main with value e
MainReturn(e, f) ==
    /\ pc' = "exited"
    /\ exit' = (IF e = 0 THEN "zero" ELSE "nonzero")
    /\ err' = e
    /\ fatal' = f

\* goto cleanup_1 after err = -1
GotoCleanup1 ==
    /\ pc' = "cleanup_1"
    /\ err' = -1
    /\ fatal' = TRUE
    /\ exit' = exit

XInitThreads ==
    /\ pc = "XInitThreads"
    /\ \E ok \in BOOLEAN :
         IF ok THEN pc' = "XOpenDisplay" /\ UNCHANGED mainVars
         ELSE MainReturn(-1, TRUE)
    /\ UNCHANGED <<connVars, envVars, xVars, syncVars, shmVars, bufVars, cp>>

XOpenDisplay ==
    /\ pc = "XOpenDisplay"
    /\ \E ok \in BOOLEAN :
         IF ok
         THEN /\ pc' = "QueryExtension"
              /\ xconn' = "open"
              /\ xdpy' = srv
              /\ UNCHANGED mainVars
         ELSE /\ MainReturn(-1, TRUE)
              /\ UNCHANGED <<xconn, xdpy>>
    /\ UNCHANGED <<mconn, selected, cursor, damage, envVars, evq, ev, syncVars,
                   shmVars, bufVars, cp>>

\* XShmQueryExtension, XDamageQueryExtension, XRRQueryExtension
QueryExtension ==
    /\ pc = "QueryExtension"
    /\ \E missing \in {"none", "XShm", "XDamage", "Xrandr"} :
         IF missing = "none"
         THEN pc' = "MOpenDisplay" /\ UNCHANGED <<mainVars, xconn>>
         ELSE xconn' = "released" /\ MainReturn(-1, TRUE)
    /\ UNCHANGED <<mconn, selected, cursor, damage, envVars, xVars, syncVars,
                   shmVars, bufVars, cp>>

MOpenDisplay ==
    /\ pc = "MOpenDisplay"
    /\ \E ok \in BOOLEAN :
         IF ok
         THEN pc' = "XRRSelectInput" /\ mconn' = "open" /\ UNCHANGED <<mainVars, xconn>>
         ELSE xconn' = "released" /\ MainReturn(-1, TRUE) /\ UNCHANGED mconn
    /\ UNCHANGED <<selected, cursor, damage, envVars, xVars, syncVars,
                   shmVars, bufVars, cp>>

XRRSelectInput_skipped ==
    /\ pc = "XRRSelectInput"
    /\ pc' = "MGetDisplayInfo"
    /\ caller' = "init"
    /\ sd' = SdInit
    /\ UNCHANGED <<mainVars, connVars, envVars, xVars, grabbed, shmVars, bufVars, cp>>

\* XRRSelectInput, then the first call of sync_displays
XRRSelectInput ==
    /\ pc = "XRRSelectInput"
    /\ selected' = TRUE
    /\ pc' = "MGetDisplayInfo"
    /\ caller' = "init"
    /\ sd' = SdInit
    /\ UNCHANGED <<mainVars, xconn, mconn, cursor, damage, envVars, xVars, grabbed,
                   shmVars, bufVars, cp>>

\* ------------------------------------------------------------ sync_displays
\* What MGetDisplayInfo can hand back: failure, a non-positive size, the size
\* of the attached display.
DInfos == {[ok |-> FALSE, g |-> NoGeom], [ok |-> TRUE, g |-> NoGeom],
           [ok |-> TRUE, g |-> mdisp]}

\* valid_display
valid_display(g) == g[1] > 0 /\ g[2] > 0

x_sync_needed_typo(xg, target) == xg[1] # target[1] \/ xg[2] = target[2]

\* x_sync_needed = xwidth != target_width || xheight != target_height
x_sync_needed(xg, target) == xg[1] # target[1] \/ xg[2] # target[2]

\* Mutants (each a slip the code could have made) stand right before the
\* definition they replace.
ModeEqual_widthOnly(m, w, h) == m[1] = w

\* mode.width == width && mode.height == height
ModeEqual(m, w, h) == m[1] = w /\ m[2] = h

RECURSIVE FindFrom(_, _, _, _)
FindFrom(ms, i, w, h) ==
    IF i > Len(ms) THEN 0
    ELSE IF ModeEqual(ms[i], w, h) THEN i
    ELSE FindFrom(ms, i + 1, w, h)

\* x_find_matching_mode: index of the first mode of exactly that size, 0 for NULL
x_find_matching_mode(ms, w, h) == FindFrom(ms, 1, w, h)

EventMatches_widthOnly(e, m) == e.w = m[1]

\* screen_change->width == mode->width && screen_change->height == mode->height
EventMatches(e, m) == e.w = m[1] /\ e.h = m[2]

\* XRRUpdateConfiguration on a ScreenChangeNotify: Xlib's cached size becomes
\* the event's, unless the call fails (returns 0)
XRRUpdateConfiguration(e, ok) == IF ok THEN <<e.w, e.h>> ELSE xdpy

\* sync_displays returns r without having grabbed
SyncEarlyReturn(r, msg) ==
    /\ sd' = [sd EXCEPT !.ret = r, !.log = msg]
    /\ pc' = "sync_returned"

\* lines 359-375
MGetDisplayInfo ==
    /\ pc = "MGetDisplayInfo"
    /\ \E dinfo \in DInfos :
         IF ~dinfo.ok THEN SyncEarlyReturn(-1, "using current mode")
         ELSE IF ~valid_display(dinfo.g) THEN SyncEarlyReturn(-1, "using current mode")
         ELSE /\ sd' = [sd EXCEPT !.target = dinfo.g]
              /\ pc' = "XCheckIfEvent"
    /\ UNCHANGED <<mainVars, connVars, envVars, xVars, grabbed, caller, shmVars,
                   bufVars, cp>>

\* lines 384-393: the non-blocking drain of one pending ScreenChangeNotify
XCheckIfEvent ==
    /\ pc = "XCheckIfEvent"
    /\ LET k == FirstMatch(evq, 1) IN
         IF k = 0 THEN UNCHANGED <<xdpy, evq>>
         ELSE /\ evq' = RemoveAt(evq, k)
              /\ \E ok \in BOOLEAN : xdpy' = XRRUpdateConfiguration(evq[k], ok)
    /\ pc' = "XGrabServer"
    /\ UNCHANGED <<mainVars, connVars, envVars, ev, syncVars, shmVars, bufVars, cp>>

\* lines 402-414
XGrabServer ==
    /\ pc = "XGrabServer"
    /\ grabbed' = TRUE
    /\ LET needed == x_sync_needed(xdpy, sd.target) IN
         /\ sd' = [sd EXCEPT !.grabs = @ + 1, !.xg = xdpy, !.srv0 = srv,
                             !.xsn = needed, !.err = IF needed THEN -1 ELSE 0]
         /\ pc' = IF needed THEN "x_find_matching_mode" ELSE "XUngrabServer"
    /\ UNCHANGED <<mainVars, connVars, envVars, xVars, caller, shmVars, bufVars, cp>>

FindMode_returnsEarly ==
    /\ pc = "x_find_matching_mode"
    /\ LET m == x_find_matching_mode(modes, sd.target[1], sd.target[2]) IN
         IF m # 0
         THEN /\ sd' = [sd EXCEPT !.matching = m]
              /\ pc' = "x_set_mode"
         ELSE /\ sd' = [sd EXCEPT !.matching = m, !.log = "using current mode", !.ret = -1]
              /\ pc' = "sync_returned"
    /\ UNCHANGED <<mainVars, connVars, envVars, xVars, grabbed, caller, shmVars,
                   bufVars, cp>>

\* lines 416-420, 439-442
FindMode ==
    /\ pc = "x_find_matching_mode"
    /\ LET m == x_find_matching_mode(modes, sd.target[1], sd.target[2]) IN
         /\ sd' = [sd EXCEPT !.matching = m,
                             !.log = IF m = 0 THEN "using current mode" ELSE @]
         /\ pc' = IF m # 0 THEN "x_set_mode" ELSE "XRRFreeScreenResources"
    /\ UNCHANGED <<mainVars, connVars, envVars, xVars, grabbed, caller, shmVars,
                   bufVars, cp>>

\* x_set_mode (lines 244-278) as called at line 422: XRRSetCrtcConfig may be
\* refused; when it is not, XRRSetScreenSize follows and the server's screen
\* takes the mode's size.
x_set_mode ==
    /\ pc = "x_set_mode"
    /\ \E ok \in BOOLEAN :
         IF ok
         THEN /\ srv' = modes[sd.matching]
              /\ owed' = TRUE
              /\ sd' = [sd EXCEPT !.sets = @ + 1, !.setret = 0, !.i = 0]
              /\ pc' = "x_sync_mode"
         ELSE /\ sd' = [sd EXCEPT !.sets = @ + 1, !.setret = -1,
                                  !.log = "failed to set mode"]
              /\ pc' = "XRRFreeScreenResources"
              /\ UNCHANGED <<srv, owed>>
    /\ UNCHANGED <<mainVars, connVars, modes, mdisp, dmgReported, xVars,
                   grabbed, caller, shmVars, bufVars, cp>>

x_sync_mode_noRefresh ==
    /\ pc = "x_sync_mode"
    /\ sd.i < RETRIES
    /\ LET k == FirstMatch(evq, 1) IN
         /\ k # 0
         /\ evq' = RemoveAt(evq, k)
         /\ xdpy' = xdpy
         /\ IF EventMatches(evq[k], modes[sd.matching])
            THEN /\ sd' = [sd EXCEPT !.err = 0, !.log = "synced"]
                 /\ pc' = "XRRFreeScreenResources"
            ELSE /\ sd' = [sd EXCEPT !.i = @ + 1,
                                     !.log = IF sd.i + 1 = RETRIES
                                             THEN "failed to sync mode" ELSE @]
                 /\ pc' = IF sd.i + 1 = RETRIES THEN "XRRFreeScreenResources"
                          ELSE "x_sync_mode"
    /\ UNCHANGED <<mainVars, connVars, envVars, ev, grabbed, caller, shmVars,
                   bufVars, cp>>

\* One turn of x_sync_mode's loop (lines 309-337): XIfEvent blocks until a
\* ScreenChangeNotify is queued and removes it.
x_sync_mode ==
    /\ pc = "x_sync_mode"
    /\ sd.i < RETRIES
    /\ LET k == FirstMatch(evq, 1) IN
         /\ k # 0
         /\ evq' = RemoveAt(evq, k)
         /\ IF EventMatches(evq[k], modes[sd.matching])
            THEN \E ok \in BOOLEAN :
                   /\ xdpy' = XRRUpdateConfiguration(evq[k], ok)
                   /\ sd' = [sd EXCEPT !.err = IF ok THEN 0 ELSE -1,
                                       !.log = IF ok THEN "synced"
                                               ELSE "error updating xrandr configuration"]
                   /\ pc' = "XRRFreeScreenResources"
            ELSE /\ xdpy' = xdpy
                 /\ sd' = [sd EXCEPT !.i = @ + 1,
                                     !.log = IF sd.i + 1 = RETRIES
                                             THEN "failed to sync mode" ELSE @]
                 /\ pc' = IF sd.i + 1 = RETRIES THEN "XRRFreeScreenResources"
                          ELSE "x_sync_mode"
    /\ UNCHANGED <<mainVars, connVars, envVars, ev, grabbed, caller, shmVars,
                   bufVars, cp>>

\* line 444
XRRFreeScreenResources ==
    /\ pc = "XRRFreeScreenResources"
    /\ pc' = "XUngrabServer"
    /\ UNCHANGED <<mainVars, connVars, envVars, xVars, syncVars, shmVars, bufVars, cp>>

\* lines 451-453
XUngrabServer ==
    /\ pc = "XUngrabServer"
    /\ grabbed' = FALSE
    /\ sd' = [sd EXCEPT !.ungrabs = @ + 1, !.ret = sd.err,
                        !.log = IF sd.err = 0 THEN "synced" ELSE @]
    /\ pc' = "sync_returned"
    /\ UNCHANGED <<mainVars, connVars, envVars, xVars, caller, shmVars, bufVars, cp>>

SyncReturned_failureIsFatal ==
    /\ pc = "sync_returned"
    /\ sd' = SdInit
    /\ IF sd.ret < 0 THEN GotoCleanup1
       ELSE /\ pc' = IF caller = "init" THEN "MCreateBuffer" ELSE "resize_shm"
            /\ UNCHANGED mainVars
    /\ UNCHANGED <<connVars, envVars, xVars, grabbed, caller, shmVars, bufVars, cp>>

\* main, lines 559-562 and 650-653: the result is logged and otherwise ignored
SyncReturned ==
    /\ pc = "sync_returned"
    /\ pc' = IF caller = "init" THEN "MCreateBuffer" ELSE "resize_shm"
    /\ sd' = SdInit
    /\ UNCHANGED <<mainVars, connVars, envVars, xVars, grabbed, caller, shmVars, bufVars, cp>>

\* The Outcome of 4.3 as the code tells it apart: the return value, and for -1
\* the message logged.
Outcome ==
    IF sd.ret = 0 THEN "Synced"
    ELSE IF sd.log = "using current mode" THEN "UsingCurrentMode"
    ELSE "Failed"

\* ------------------------------------------------------- shared memory image
\* cleanup_shm (lines 132-146): shmdt, and only when it succeeded shmctl(IPC_RMID)
cleanup_shm(s) ==
    IF ~s.mapped THEN [shm |-> s, ret |-> -1]
    ELSE IF s.st # "seg" THEN [shm |-> [s EXCEPT !.mapped = FALSE], ret |-> -1]
    ELSE [shm |-> [s EXCEPT !.mapped = FALSE, !.st = "removed"], ret |-> 0]

\* XDestroyImage: the structure is freed and its fields are no longer defined
\* (d counts the frees of it)
XDestroyImage(img) ==
    [w |-> 0, h |-> 0, st |-> "freed", d |-> IF img.d < 2 THEN img.d + 1 ELSE img.d]

\* xshm_cleanup (lines 148-162); dok is XShmDetach's result
xshm_cleanup(img, s, dok) ==
    LET c == cleanup_shm([s EXCEPT !.attached = IF dok THEN FALSE ELSE @]) IN
    [img |-> XDestroyImage(img), shm |-> c.shm,
     ret |-> IF dok /\ c.ret = 0 THEN 0 ELSE -1]

XshmOutcomes == {"ok", "XShmCreateImage", "shmget", "shmat", "shmat_missed", "XShmAttach"}

\* xshm_init (lines 164-213) for a screen of size g, by the call that fails.
\* "shmat" and "shmat_missed" are the two ways a build can take the test
\* shmaddr < 0 on the (void *) -1 a failed shmat returns.
xshm_init(g, s, lk, outcome) ==
    LET img == [w |-> g[1], h |-> g[2], st |-> "live", d |-> 0] IN
    CASE outcome = "XShmCreateImage" ->
           [img |-> NoImg, shm |-> s, leaks |-> lk]
      [] outcome = "shmget" ->
           [img |-> NoImg, shm |-> [st |-> "nosegment", mapped |-> FALSE, attached |-> FALSE],
            leaks |-> lk \cup {"ximage"}]
      [] outcome = "shmat" ->
           [img |-> NoImg,
            shm |-> cleanup_shm([st |-> "seg", mapped |-> FALSE, attached |-> FALSE]).shm,
            leaks |-> lk \cup {"ximage", "segment"}]
      [] outcome = "shmat_missed" ->
           [img |-> img, shm |-> [st |-> "seg", mapped |-> FALSE, attached |-> TRUE],
            leaks |-> lk]
      [] outcome = "XShmAttach" ->
           [img |-> NoImg,
            shm |-> cleanup_shm([st |-> "seg", mapped |-> TRUE, attached |-> FALSE]).shm,
            leaks |-> lk \cup {"ximage"}]
      [] OTHER ->
           [img |-> img, shm |-> [st |-> "seg", mapped |-> TRUE, attached |-> TRUE],
            leaks |-> lk]

\* What reading width and height through an XImage pointer yields: the fields
\* of a live image, anything once the structure has been freed.
ReadDims(img) == IF img.st = "live" THEN {<<img.w, img.h>>} ELSE Geoms

\* The process is killed by a signal (a fault on freed or unmapped memory).
Crash ==
    /\ pc' = "crashed"
    /\ exit' = "signal"
    /\ UNCHANGED <<err, fatal>>

\* ------------------------------------------------- main: buffers (564-597)
MCreateBuffer ==
    /\ pc = "MCreateBuffer"
    /\ \E ok \in BOOLEAN :
         IF ok
         THEN /\ root' = [w |-> xdpy[1], h |-> xdpy[2], st |-> "created"]
              /\ pc' = "mcursor_init"
              /\ UNCHANGED mainVars
         ELSE GotoCleanup1 /\ UNCHANGED root
    /\ UNCHANGED <<connVars, envVars, xVars, syncVars, shmVars, rr, cp>>

mcursor_init ==
    /\ pc = "mcursor_init"
    /\ \E ok \in BOOLEAN :
         IF ok
         THEN cursor' = TRUE /\ pc' = "xshm_init" /\ UNCHANGED mainVars
         ELSE GotoCleanup1 /\ UNCHANGED cursor
    /\ UNCHANGED <<xconn, mconn, selected, damage, envVars, xVars, syncVars,
                   shmVars, bufVars, cp>>

\* lines 586-593
XshmInitMain ==
    /\ pc = "xshm_init"
    /\ \E o \in XshmOutcomes :
         LET r == xshm_init(xdpy, shm, leaks, o) IN
           /\ ximg' = r.img
           /\ shm' = r.shm
           /\ leaks' = r.leaks
           /\ IF r.img.st = "null" THEN GotoCleanup1
              ELSE pc' = "XDamageCreate" /\ UNCHANGED mainVars
    /\ UNCHANGED <<connVars, envVars, xVars, syncVars, orphan, bufVars, cp>>

XDamageCreate ==
    /\ pc = "XDamageCreate"
    /\ damage' = "created"
    /\ pc' = "XNextEvent"
    /\ UNCHANGED <<mainVars, xconn, mconn, selected, cursor, envVars, xVars,
                   syncVars, shmVars, bufVars, cp>>

\* --------------------------------------------------- main: the event loop
\* line 602: blocks until an event is queued
XNextEvent ==
    /\ pc = "XNextEvent"
    /\ evq # <<>>
    /\ ev' = Head(evq)
    /\ evq' = Tail(evq)
    /\ pc' = CASE Head(evq).type = "damage" -> "XDamageSubtract"
               [] Head(evq).type = "screen" -> "XRRUpdateConfiguration"
               [] OTHER -> "mcursor_on_event"
    /\ UNCHANGED <<mainVars, connVars, envVars, xdpy, syncVars, shmVars, bufVars, cp>>

XDamageSubtract_noAck ==
    /\ pc = "XDamageSubtract"
    /\ rr' = [RrInit EXCEPT !.locked = rr.locked]
    /\ pc' = "MLockBuffer"
    /\ UNCHANGED <<mainVars, connVars, envVars, xVars, syncVars, shmVars, root, cp>>

\* line 611, then the call of render_root
XDamageSubtract ==
    /\ pc = "XDamageSubtract"
    /\ dmgReported' = FALSE
    /\ rr' = [RrInit EXCEPT !.locked = rr.locked]
    /\ pc' = "MLockBuffer"
    /\ UNCHANGED <<mainVars, connVars, srv, modes, owed, mdisp, xVars,
                   syncVars, shmVars, root, cp>>

\* line 671
mcursor_on_event ==
    /\ pc = "mcursor_on_event"
    /\ pc' = "XNextEvent"
    /\ UNCHANGED <<mainVars, connVars, envVars, xVars, syncVars, shmVars, bufVars, cp>>

\* ------------------------------------------------ render_root (lines 97-130)
LockFailed_goesOn(ok) == "XShmGetImage"

\* where render_root goes after MLockBuffer
AfterLock(ok) == IF ok THEN "XShmGetImage" ELSE "render_returned"

MLockBuffer ==
    /\ pc = "MLockBuffer"
    /\ \E ok \in BOOLEAN :
         /\ rr' = IF ok THEN [rr EXCEPT !.locked = TRUE, !.locks = @ + 1]
                  ELSE [rr EXCEPT !.ret = -1]
         /\ pc' = AfterLock(ok)
    /\ UNCHANGED <<mainVars, connVars, envVars, xVars, syncVars, shmVars, root, cp>>

\* lines 109-118: a failure is logged and the copy goes ahead
XShmGetImage ==
    /\ pc = "XShmGetImage"
    /\ \E status \in BOOLEAN : rr' = [rr EXCEPT !.status = status]
    /\ pc' = "copy_ximg_to_buffer_mlocked"
    /\ UNCHANGED <<mainVars, connVars, envVars, xVars, syncVars, shmVars, root, cp>>

\* line 120: copies ximg->height rows of ximg->width pixels out of ximg->data.
\* Through a pointer to a freed XImage the size is anything; reading data that
\* is not mapped (any more) kills the process.
copy_ximg_to_buffer_mlocked ==
    /\ pc = "copy_ximg_to_buffer_mlocked"
    /\ \/ /\ ximg.st = "live" => shm.mapped
          /\ \E g \in ReadDims(ximg) : rr' = [rr EXCEPT !.wrote = TRUE, !.dims = g]
          /\ pc' = "MUnlockBuffer"
          /\ UNCHANGED mainVars
       \/ /\ ximg.st # "live" \/ ~shm.mapped
          /\ Crash
          /\ UNCHANGED rr
    /\ UNCHANGED <<connVars, envVars, xVars, syncVars, shmVars, root, cp>>

\* lines 122-129
MUnlockBuffer ==
    /\ pc = "MUnlockBuffer"
    /\ \E ok \in BOOLEAN :
         rr' = [rr EXCEPT !.unlocks = @ + 1, !.locked = FALSE,
                          !.ret = IF ok THEN 0 ELSE -1]
    /\ pc' = "render_returned"
    /\ UNCHANGED <<mainVars, connVars, envVars, xVars, syncVars, shmVars, root, cp>>

\* main, line 618: render_root's result is ignored, back to XNextEvent
RenderReturned ==
    /\ pc = "render_returned"
    /\ rr' = [RrInit EXCEPT !.locked = rr.locked]
    /\ pc' = "XNextEvent"
    /\ UNCHANGED <<mainVars, connVars, envVars, xVars, syncVars, shmVars, root, cp>>

\* ------------------------------------------- main: a ScreenChangeNotify
\* lines 632-650: update Xlib's configuration, then call sync_displays
XRRUpdateConfigurationMain ==
    /\ pc = "XRRUpdateConfiguration"
    /\ \E ok \in BOOLEAN : xdpy' = XRRUpdateConfiguration(ev, ok)
    /\ pc' = "MGetDisplayInfo"
    /\ caller' = "loop"
    /\ sd' = SdInit
    /\ UNCHANGED <<mainVars, connVars, envVars, evq, grabbed, shmVars, bufVars, cp>>
    /\ ev' = NoEv

\* resize_shm takes the pointer by value: the new image is assigned to the
\* parameter (line 466) and main's ximg goes on designating the old one.
MainXimgAfterRebuild(old, new) == old

\* resize_shm (lines 456-470) as called at line 658
resize_shm ==
    /\ pc = "resize_shm"
    /\ \E g \in ReadDims(ximg) :
         LET shm_resize_needed == g[1] # xdpy[1] \/ g[2] # xdpy[2] IN
         IF ~shm_resize_needed
         THEN /\ pc' = "resize_mbuffer"
              /\ UNCHANGED <<mainVars, shmVars>>
         ELSE \/ \E dok \in BOOLEAN, o \in XshmOutcomes :
                   LET c == xshm_cleanup(ximg, shm, dok)
                       r == xshm_init(xdpy, c.shm, leaks, o)
                   IN /\ ximg' = MainXimgAfterRebuild(c.img, r.img)
                      /\ orphan' = r.img
                      /\ shm' = r.shm
                      /\ leaks' = IF orphan.st = "live" THEN r.leaks \cup {"ximage"}
                                  ELSE r.leaks
                      /\ IF r.img.st = "null"
                         THEN pc' = "XDamageDestroy" /\ fatal' = TRUE
                         ELSE pc' = "resize_mbuffer" /\ fatal' = fatal
                      /\ UNCHANGED <<exit, err>>
              \/ /\ ximg.st = "freed"
                 /\ Crash
                 /\ UNCHANGED shmVars
    /\ UNCHANGED <<connVars, envVars, xVars, syncVars, bufVars, cp>>

\* resize_mbuffer (lines 472-488) as called at line 663
resize_mbuffer ==
    /\ pc = "resize_mbuffer"
    /\ LET buffer_resize_needed == root.w # xdpy[1] \/ root.h # xdpy[2] IN
         IF ~buffer_resize_needed
         THEN pc' = "loop_end" /\ UNCHANGED <<root, mainVars>>
         ELSE \E ok \in BOOLEAN :
                IF ok
                THEN /\ root' = [root EXCEPT !.w = xdpy[1], !.h = xdpy[2]]
                     /\ pc' = "loop_end"
                     /\ UNCHANGED mainVars
                ELSE /\ pc' = "XDamageDestroy"
                     /\ fatal' = TRUE
                     /\ UNCHANGED <<root, exit, err>>
    /\ UNCHANGED <<connVars, envVars, xVars, syncVars, shmVars, rr, cp>>

\* line 668: the ScreenChangeNotify has been handled, back to XNextEvent
LoopEnd ==
    /\ pc = "loop_end"
    /\ pc' = "XNextEvent"
    /\ UNCHANGED <<mainVars, connVars, envVars, xVars, syncVars, shmVars, bufVars, cp>>

\* ------------------------------------------------- main: after the loop
\* line 675
XDamageDestroy ==
    /\ pc = "XDamageDestroy"
    /\ damage' = "destroyed"
    /\ pc' = "xshm_cleanup"
    /\ UNCHANGED <<mainVars, xconn, mconn, selected, cursor, envVars, xVars,
                   syncVars, shmVars, bufVars, cp>>

\* line 676
XshmCleanupMain ==
    /\ pc = "xshm_cleanup"
    /\ \/ \E dok \in BOOLEAN :
            LET c == xshm_cleanup(ximg, shm, dok) IN
              /\ ximg' = c.img
              /\ shm' = c.shm
              /\ pc' = "cleanup_1"
              /\ UNCHANGED <<mainVars, orphan, leaks>>
       \/ /\ ximg.st = "freed"
          /\ Crash
          /\ UNCHANGED shmVars
    /\ UNCHANGED <<connVars, envVars, xVars, syncVars, bufVars, cp>>

\* the value main returns at line 683
ExitValue(e) == e

\* lines 678-683: cursor_cache_free, MCloseDisplay, XCloseDisplay, return err
Cleanup1 ==
    /\ pc = "cleanup_1"
    /\ mconn' = "released"
    /\ xconn' = "released"
    /\ MainReturn(ExitValue(err), fatal)
    /\ UNCHANGED <<selected, cursor, damage, envVars, xVars, syncVars, shmVars,
                   bufVars, cp>>

\* ------------------------------------------------------------ environment
Alive == pc \notin {"exited", "crashed"}

\* Xlib takes events off the connection only inside the calls that read it
\* (XNextEvent, XCheckIfEvent, XIfEvent); when, between two such calls, the
\* server sent an event makes no difference to the program.  Before
\* XRRSelectInput a reconfiguration reaches the program through no event.
ReadPoint == pc \in {"XNextEvent", "XCheckIfEvent", "x_sync_mode", "XRRSelectInput"}

\* Another X client reconfigures the screen (the size may stay as it is);
\* XGrabServer keeps it out.  The server sends a ScreenChangeNotify to us once
\* we have selected for it.
EnvScreenChange ==
    /\ ReadPoint
    /\ xconn = "open"
    /\ ~grabbed
    /\ selected => Len(evq) < MaxQ
    /\ \E g \in Geoms :
         /\ srv' = g
         /\ evq' = IF selected THEN Append(evq, ScreenEv(g)) ELSE evq
    /\ UNCHANGED <<pc, mainVars, connVars, modes, owed, mdisp, dmgReported, xdpy, ev,
                   syncVars, shmVars, bufVars, cp>>

\* The server delivers the ScreenChangeNotify of the mode change we made.
EnvNotify ==
    /\ ReadPoint
    /\ owed
    /\ Len(evq) < MaxQ
    /\ evq' = Append(evq, ScreenEv(srv))
    /\ owed' = FALSE
    /\ UNCHANGED <<pc, mainVars, connVars, srv, modes, mdisp, dmgReported,
                   xdpy, ev, syncVars, shmVars, bufVars, cp>>

\* The screen content changes: with XDamageReportNonEmpty one DamageNotify is
\* sent when the damage region turns non-empty.
EnvDamage ==
    /\ Alive
    /\ damage = "created"
    /\ ~dmgReported
    /\ Len(evq) < MaxQ
    /\ evq' = Append(evq, DamageEv)
    /\ dmgReported' = TRUE
    /\ UNCHANGED <<pc, mainVars, connVars, srv, modes, owed, mdisp,
                   xdpy, ev, syncVars, shmVars, bufVars, cp>>

\* An event the cursor client has selected for.
EnvOther ==
    /\ ReadPoint
    /\ cursor
    /\ Count(evq, "other") = 0
    /\ Len(evq) < MaxQ
    /\ evq' = Append(evq, OtherEv)
    /\ UNCHANGED <<pc, mainVars, connVars, envVars, xdpy, ev, syncVars, shmVars,
                   bufVars, cp>>

\* ------------------------------------------------------------ specification
\* The program's own steps.
Prog ==
    \/ XInitThreads \/ XOpenDisplay \/ QueryExtension \/ MOpenDisplay \/ XRRSelectInput
    \/ MGetDisplayInfo \/ XCheckIfEvent \/ XGrabServer \/ FindMode \/ x_set_mode
    \/ x_sync_mode \/ XRRFreeScreenResources \/ XUngrabServer \/ SyncReturned
    \/ MCreateBuffer \/ mcursor_init \/ XshmInitMain \/ XDamageCreate
    \/ XNextEvent \/ XDamageSubtract \/ mcursor_on_event
    \/ MLockBuffer \/ XShmGetImage \/ copy_ximg_to_buffer_mlocked \/ MUnlockBuffer
    \/ RenderReturned
    \/ XRRUpdateConfigurationMain \/ resize_shm \/ resize_mbuffer \/ LoopEnd
    \/ XDamageDestroy \/ XshmCleanupMain \/ Cleanup1

Env == EnvScreenChange \/ EnvNotify \/ EnvDamage \/ EnvOther

Next == Prog \/ Env

Spec == Init /\ [][Next]_vars

\* ------------------------------------------- the row copy, byte by byte
\* MBuffer.bits is raw byte storage: bits + n is n bytes on.
MBUFFER_BITS_UNIT == 1

\* (The uint32_t products of lines 71-86 stay far below 2^32 for the sizes
\* modelled, so they are taken without wrap-around.)
\* The bytes of the XImage's data and the bytes the MBuffer holds before the
\* copy: all different, so that a byte out of place shows.
SrcByte(k) == k + 1
DstInit(k) == 0 - (k + 1)

\* buf_bytes_per_line = buf->stride * 4
buf_bytes_per_line(stride) == stride * BUF_BYTES_PER_PIXEL

\* ximg_bytes_per_pixel = ximg->bits_per_pixel / 8
ximg_bytes_per_pixel(bits_per_pixel) == bits_per_pixel \div 8

\* buf_row = buf->bits + (y * buf_bytes_per_line)
DstOffset(c, y) == (y * buf_bytes_per_line(c.stride)) * MBUFFER_BITS_UNIT

\* ximg_row = ximg->data + (y * ximg->bytes_per_line)
SrcOffset(c, y) == y * c.bpl

RowBytes_withPadding(c) == c.bpl

\* the length memcpy is given: ximg->width * ximg_bytes_per_pixel
RowBytes(c) == c.w * ximg_bytes_per_pixel(c.bpp)

DstSize(c) == c.stride * BUF_BYTES_PER_PIXEL * c.h
SrcSize(c) == c.bpl * c.h

\* memcpy(buf_row, ximg_row, n) on the buffer's bytes
memcpy(buf, d, s, n) ==
    [k \in DOMAIN buf |-> IF k - 1 >= d /\ k - 1 < d + n THEN SrcByte(s + (k - 1 - d))
                          ELSE buf[k]]

\* The XImages and MBuffers the copy is given: a row of either holds the
\* image's pixels and may hold padding after them.
CopyInputs ==
    {[pc |-> "loop", w |-> w, h |-> h, bpp |-> bits,
      bpl |-> w * (bits \div 8) + pad, stride |-> w + spad,
      rs |-> rs, re |-> re, y |-> rs, oob |-> FALSE,
      buf |-> [k \in 1..((w + spad) * BUF_BYTES_PER_PIXEL * h) |-> DstInit(k - 1)]] :
        w \in 1..MaxCopyDim, h \in 1..MaxCopyDim, bits \in {8, 16, 32},
        pad \in 0..MaxPad, spad \in 0..MaxPad,
        rs \in 0..MaxCopyDim, re \in 0..MaxCopyDim}

CopyInit ==
    /\ pc = "copy_ximg_rows_to_buffer_mlocked"
    /\ exit = "running" /\ err = 0 /\ fatal = FALSE
    /\ xconn = "open" /\ mconn = "open" /\ selected = TRUE /\ cursor = TRUE
    /\ damage = "created" /\ dmgReported = FALSE
    /\ srv = <<2, 1>> /\ modes = << <<2, 1>> >> /\ owed = FALSE /\ xdpy = <<2, 1>>
    /\ evq = <<>> /\ ev = NoEv /\ mdisp = <<2, 1>>
    /\ grabbed = FALSE /\ caller = "init" /\ sd = SdInit
    /\ root = NoRoot /\ ximg = NoImg /\ orphan = NoImg /\ shm = NoShm /\ leaks = {}
    /\ rr = [RrInit EXCEPT !.locked = TRUE, !.locks = 1]
    /\ cp \in {c \in CopyInputs : c.rs <= c.re /\ c.re <= c.h}

\* One turn of the loop of copy_ximg_rows_to_buffer_mlocked (lines 77-87)
CopyRow ==
    /\ cp.pc = "loop"
    /\ cp.y < cp.re
    /\ LET d == DstOffset(cp, cp.y)
           s == SrcOffset(cp, cp.y)
           n == RowBytes(cp)
       IN cp' = [cp EXCEPT !.buf = memcpy(cp.buf, d, s, n),
                           !.oob = @ \/ d + n > DstSize(cp) \/ s + n > SrcSize(cp),
                           !.y = @ + 1]
    /\ UNCHANGED <<pc, mainVars, connVars, envVars, xVars, syncVars, shmVars, bufVars>>

\* line 89: return 0
CopyDone ==
    /\ cp.pc = "loop"
    /\ cp.y >= cp.re
    /\ cp' = [cp EXCEPT !.pc = "done"]
    /\ UNCHANGED <<pc, mainVars, connVars, envVars, xVars, syncVars, shmVars, bufVars>>

CopyNext == CopyRow \/ CopyDone

CopySpec == CopyInit /\ [][CopyNext]_vars

\* ------------------------------------------------------------------ claims
\* The positions inside sync_displays between XGrabServer and XUngrabServer.
UnderGrab == {"x_find_matching_mode", "x_set_mode", "x_sync_mode",
              "XRRFreeScreenResources", "XUngrabServer"}

\* A mode of exactly the size g is in the server's mode list.
HasMode(g) == \E k \in DOMAIN modes : modes[k] = g

\* sync_displays has returned to main (its locals are still on view).
SyncDone == pc = "sync_returned"

\* C1: in every call of sync_displays the grab, once acquired, is released
\* exactly once before the call returns, on every branch; it is never held
\* after the return and never released without having been acquired.
C1_GrabReleasedOnce ==
    /\ sd.ungrabs <= sd.grabs
    /\ sd.grabs <= 1
    /\ grabbed <=> (sd.grabs = 1 /\ sd.ungrabs = 0)
    /\ grabbed <=> pc \in UnderGrab
    /\ SyncDone => sd.grabs = sd.ungrabs

\* C1 witness: a call that grabbed, applied a mode, ran out of confirmation
\* polls and has returned with the grab released once.
C1_Witness ==
    /\ SyncDone
    /\ sd.grabs = 1 /\ sd.ungrabs = 1 /\ ~grabbed
    /\ sd.i = RETRIES

\* C2 (as claimed): once resize_shm and resize_mbuffer have both succeeded, the
\* XImage main captures into and the MBuffer have the size of the screen.
C2_ReconcileMatches ==
    pc = "loop_end" =>
        /\ ximg.st = "live"
        /\ <<ximg.w, ximg.h>> = xdpy
        /\ <<root.w, root.h>> = xdpy

\* C3 (as claimed): a frame is copied only with the buffer lock held and with
\* the size of the capture surface equal to the size of the buffer.
C3_CopyOnlyWhenMatching ==
    (pc = "MUnlockBuffer" /\ rr.wrote) =>
        /\ rr.locked
        /\ rr.dims = <<root.w, root.h>>

\* C4 (as claimed): the confirmation wait never depends on the server for its
\* next turn: wherever x_sync_mode stands, it can go on.
C4_WaitNeverBlocks ==
    pc = "x_sync_mode" => ENABLED x_sync_mode

C6_NoModeUsesCurrent ==
    (SyncDone /\ valid_display(sd.target) /\ ~HasMode(sd.target)) =>
        (Outcome = "UsingCurrentMode" /\ sd.sets = 0 /\ srv = sd.srv0)

\* C6 (amended): so it is when R also differs from the current size (a target
\* equal to the current size returns Synced before the mode list is read).
C6_NoModeUsesCurrentWhenDiffers ==
    (SyncDone /\ valid_display(sd.target) /\ ~HasMode(sd.target)
        /\ sd.grabs = 1 /\ sd.xg # sd.target) =>
        (Outcome = "UsingCurrentMode" /\ sd.sets = 0 /\ srv = sd.srv0 /\ xdpy = sd.xg)

\* C6 witness: the target differs from the current size and no mode matches.
C6_Witness ==
    /\ SyncDone /\ valid_display(sd.target) /\ ~HasMode(sd.target)
    /\ sd.grabs = 1 /\ sd.xg # sd.target
    /\ Outcome = "UsingCurrentMode"

\* C7: when the target equals the current size (as read under the grab),
\* sync_displays returns Synced, requests no mode change and changes neither
\* the server's nor Xlib's screen size: the state it leaves is one in which the
\* same call gives the same result.
C7_EqualIsNoOp ==
    (SyncDone /\ sd.grabs = 1 /\ sd.xg = sd.target) =>
        /\ Outcome = "Synced"
        /\ sd.sets = 0
        /\ srv = sd.srv0
        /\ xdpy = sd.target
        /\ ~x_sync_needed(xdpy, sd.target)

\* C7 witness: a repeated call (from the event loop) that found the sizes equal.
C7_Witness ==
    /\ SyncDone /\ sd.grabs = 1 /\ sd.xg = sd.target
    /\ caller = "loop" /\ Outcome = "Synced"

\* C8 (as claimed): main returns 0 only when no fatal path was taken.
C8_ExitCode ==
    pc = "exited" => (exit = "zero" <=> ~fatal)

\* C9: the copy happens between a successful MLockBuffer and its
\* MUnlockBuffer; a failed lock means no copy and no unlock; a successful lock
\* is followed by exactly one unlock before render_root returns.
C9_WriteUnderLock ==
    /\ rr.unlocks <= rr.locks
    /\ rr.locks <= 1
    /\ rr.wrote => rr.locks = 1
    /\ pc \in {"XShmGetImage", "copy_ximg_to_buffer_mlocked", "MUnlockBuffer"} =>
          (rr.locked /\ rr.locks = 1 /\ rr.unlocks = 0)
    /\ pc = "render_returned" =>
          /\ rr.unlocks = rr.locks
          /\ ~rr.locked
          /\ rr.ret = -1 /\ rr.unlocks = 0 => ~rr.wrote

\* C9 witness: render_root has returned after lock, copy and one unlock.
C9_Witness ==
    /\ pc = "render_returned"
    /\ rr.locks = 1 /\ rr.unlocks = 1 /\ rr.wrote /\ ~rr.locked

\* The rows copied so far.
CopiedRows == {y \in cp.rs..(cp.re - 1) : y < cp.y}

\* C10: every copied row y of the destination, at y times the destination's
\* bytes per line, holds the first width * bytes-per-pixel bytes of source row
\* y, at y times the source's bytes per line; every other byte of the
\* destination is as it was, and no byte outside either buffer is touched.
C10_RowsExact ==
    cp.pc \in {"loop", "done"} =>
        /\ ~cp.oob
        /\ \A k \in DOMAIN cp.buf :
             LET rows == {y \in CopiedRows :
                            /\ k - 1 >= y * cp.stride * BUF_BYTES_PER_PIXEL
                            /\ k - 1 < y * cp.stride * BUF_BYTES_PER_PIXEL
                                       + cp.w * (cp.bpp \div 8)}
             IN IF rows = {} THEN cp.buf[k] = DstInit(k - 1)
                ELSE \A y \in rows :
                       cp.buf[k] = SrcByte(y * cp.bpl
                                           + (k - 1 - y * cp.stride * BUF_BYTES_PER_PIXEL))

\* C10 witness: two rows copied between an XImage and an MBuffer that both
\* pad their rows, with different bytes per line.
C10_Witness ==
    /\ cp.pc = "done"
    /\ Cardinality(CopiedRows) >= 2
    /\ cp.bpl > cp.w * (cp.bpp \div 8)
    /\ cp.stride > cp.w
    /\ cp.bpl # cp.stride * BUF_BYTES_PER_PIXEL

\* The positions inside sync_displays before its return.
SyncPcs == {"MGetDisplayInfo", "XCheckIfEvent", "XGrabServer"} \cup UnderGrab

\* C11: no outcome of sync_displays is fatal: during the call and at its return
\* main has taken no fatal path, and whatever the call returns (Synced,
\* UsingCurrentMode, Failed) main's next step is MCreateBuffer at startup and
\* resize_shm in the event loop, with err and the exit state untouched.
C11_SyncNeverFatal ==
    /\ [](pc \in SyncPcs \cup {"sync_returned"} =>
            (exit = "running" /\ ~fatal /\ err = 0))
    /\ [][(pc = "sync_returned" /\ pc' # pc) =>
            /\ pc' = (IF caller = "init" THEN "MCreateBuffer" ELSE "resize_shm")
            /\ UNCHANGED <<exit, err, fatal>>]_vars

\* C11 witness: a call from the event loop that applied a mode, failed to
\* confirm it and has returned Failed.
C11_Witness ==
    /\ SyncDone /\ caller = "loop"
    /\ Outcome = "Failed" /\ sd.sets = 1

\* C12 (as claimed): the grab has been released when the confirmation wait
\* runs: x_sync_mode awaits and consumes notifications only outside the grab.
C12_WaitOutsideGrab ==
    pc = "x_sync_mode" => ~grabbed

\* C13 (as claimed): when main has returned, everything it had acquired (the
\* Damage handle, the XImage and its segment, the MBuffer, the MDisplay
\* session, the X connection) has been released.
C13_ShutdownReleasesAll ==
    pc = "exited" =>
        /\ damage # "created"
        /\ ximg.st # "live"
        /\ shm.st # "seg"
        /\ root.st # "created"
        /\ mconn # "open"
        /\ xconn # "open"

\* C14 (as claimed): wherever main is about to destroy the image, xshm_cleanup
\* removes the segment shminfo names, whether or not XShmDetach and shmdt
\* succeed, and returns 0 only when every step succeeded.
C14_CleanupBestEffort ==
    pc = "xshm_cleanup" =>
        \A dok \in BOOLEAN :
            LET c == xshm_cleanup(ximg, shm, dok) IN
              /\ shm.st = "seg" => c.shm.st = "removed"
              /\ c.ret = 0 => (dok /\ c.shm.st = "removed")

\* C15 (as claimed): when startup ends because xshm_init failed, nothing that
\* xshm_init had acquired is still held: no XImage and no segment is left
\* without an owner.
C15_FailedInitHoldsNothing ==
    (pc = "cleanup_1" /\ damage = "none" /\ cursor) =>
        (leaks = {} /\ shm.st # "seg")

\* The positions inside render_root, and its return to main.
RenderPcs == {"MLockBuffer", "XShmGetImage", "copy_ximg_to_buffer_mlocked",
              "MUnlockBuffer", "render_returned"}

C17_OnlyCopyUnderLock ==
    rr.locked => pc \in {"copy_ximg_to_buffer_mlocked", "MUnlockBuffer"}

\* The confirmation wait has begun (x_set_mode succeeded) or is over.
WaitBegun ==
    /\ pc \in {"x_sync_mode", "XRRFreeScreenResources", "XUngrabServer", "sync_returned"}
    /\ sd.sets = 1 /\ sd.setret = 0

\* C18 (as claimed): the wait consumes at most 3 notifications, applies none
\* that does not match, and ends either at the first match, with Xlib's size
\* refreshed to the mode's and the result Synced, or after 3 misses, Failed.
C18_SyncedAtFirstMatch ==
    WaitBegun =>
        /\ sd.i <= RETRIES
        /\ pc = "x_sync_mode" => (sd.i < RETRIES /\ xdpy = sd.xg)
        /\ pc # "x_sync_mode" =>
              \/ sd.err = 0 /\ sd.i < RETRIES /\ xdpy = modes[sd.matching]
              \/ sd.err = -1 /\ sd.i = RETRIES /\ xdpy = sd.xg

\* C18 (amended): at the first match the result is Synced when the refresh
\* (XRRUpdateConfiguration) succeeds and Failed, with Xlib's size unchanged,
\* when it fails.
C18_FirstMatchEndsWait ==
    WaitBegun =>
        /\ sd.i <= RETRIES
        /\ pc = "x_sync_mode" => (sd.i < RETRIES /\ xdpy = sd.xg)
        /\ pc # "x_sync_mode" =>
              \/ sd.err = 0 /\ sd.i < RETRIES /\ xdpy = modes[sd.matching]
              \/ sd.err = -1 /\ sd.i = RETRIES /\ xdpy = sd.xg
                   /\ sd.log = "failed to sync mode"
              \/ sd.err = -1 /\ sd.i < RETRIES /\ xdpy = sd.xg
                   /\ sd.log = "error updating xrandr configuration"

\* C18 witness: two notifications of another size were consumed, the third
\* matched and was applied: Synced.
C18_Witness ==
    /\ WaitBegun /\ SyncDone
    /\ sd.i = 2 /\ Outcome = "Synced" /\ xdpy = modes[sd.matching]

\* C19 (as claimed): a call of sync_displays from the event loop with a valid
\* target that has a mode ends with the screen, and Xlib's view of it, at the
\* target; and when the notification has been handled the XImage main
\* captures into and the MBuffer have the size of the screen as Xlib knows it.
C19_OverrideAndReconcile ==
    /\ (SyncDone /\ caller = "loop" /\ valid_display(sd.target) /\ HasMode(sd.target)) =>
          (srv = sd.target /\ xdpy = sd.target)
    /\ pc = "loop_end" =>
          /\ ximg.st = "live" /\ shm.st = "seg"
          /\ <<ximg.w, ximg.h>> = xdpy
          /\ <<root.w, root.h>> = xdpy

\* C20: wherever sync_displays stands, in its first call and in every later
\* one, RRScreenChangeNotify has been selected on a connection that is open.
C20_SelectedBeforeSync ==
    pc \in SyncPcs \cup {"sync_returned"} => (selected /\ xconn = "open")

\* C20 witness: the confirmation wait of a call from the event loop, with a
\* notification delivered to the client's queue.
C20_Witness ==
    /\ pc = "x_sync_mode" /\ caller = "loop"
    /\ selected /\ FirstMatch(evq, 1) # 0

\* C21 (as claimed): the XImage main hands to render_root and to
\* xshm_cleanup is live wherever either is about to use it, and no XImage is
\* destroyed twice.
C21_NoUseAfterDestroy ==
    /\ pc \in {"XShmGetImage", "copy_ximg_to_buffer_mlocked", "xshm_cleanup"} =>
          ximg.st = "live"
    /\ ximg.d <= 1

====
